---- MODULE Spec2Model ----
(***************************************************************************)
(* jarvis-streamdeck: layout controller, input dispatcher and device       *)
(* lifecycle.                                                              *)
(*                                                                         *)
(* State: the globals of jarvis/core/logic.py (current_layout, layouts,    *)
(* deck), the initialisation flag of jarvis/ui/render.py (FONT_DIR and     *)
(* ICONS_DIR), the cleanup flag of jarvis/ui/lifecycle.py, the microphone  *)
(* mute state toggled by actions.toggle_mic, and the image shown by each   *)
(* key of the device.  Every handler (key_change, the closure returned by  *)
(* switch_layout, cleanup) is one atomic action comprising every call it   *)
(* makes.  The variables last, calls, invoked, raised and writes record    *)
(* what the most recent handler did: which operation ran, the device calls *)
(* it issued, the Actions the dispatcher invoked, the exception that left  *)
(* it, and how often it assigned current_layout.  args and drawing hold    *)
(* the arguments and the text drawn by a direct call of render_keys; queue *)
(* and running hold the key events the hardware reported and the           *)
(* executions of key_change under way on the delivery context.  rendered   *)
(* records every image pushed so far with the arguments of its render_keys *)
(* call; pending holds the device calls a rendering that is interleaved    *)
(* with cleanup (ShutdownSpec) has still to make.                          *)
(***************************************************************************)
EXTENDS Integers, Sequences, FiniteSets, TLC

VARIABLES current_layout, layouts, deck, images, render_init, muted,
          clean_stickykeys, wrappers,
          last, calls, invoked, raised, writes,
          args, drawing, queue, running, rendered, pending

vars == <<current_layout, layouts, deck, images, render_init, muted,
          clean_stickykeys, wrappers, last, calls, invoked, raised, writes,
          args, drawing, queue, running, rendered, pending>>

(* ------------------------------ bounds --------------------------------- *)

\* number of keys of the modelled device (the StreamDeck XL has 32)
KeyCount == 4

Keys == 0 .. (KeyCount - 1)

\* longest label drawn in the text layout checks
MaxLabelLen == 4

\* largest number of characters that fit in one line of a key
MaxCharsPerLine == 4

\* largest number of key events the hardware has reported and the device
\* library has not yet delivered
MaxQueue == 2

(* --------------------------- Python values ----------------------------- *)

\* Python's None, for the optional strings of the program
None == "<None>"

\* truth value of an optional string: None and "" are falsy
Truthy(x) == x \notin {None, ""}

\* no exception left the handler
NoExc == "none"

\* exception classes derived from Exception that Actions of the repository
\* raise: RuntimeError (module not initialised) and OSError (a subprocess
\* cannot be started, a file cannot be read)
FailureKinds == {"RuntimeError", "OSError"}

\* classes derived from BaseException only: interpreter-exit requests
ExitKinds == {"SystemExit"}

\* what "except Exception" catches: the failures above and the errors Python
\* itself raises on a bad lookup or call, but no exit request
IsException(e) ==
    e \in FailureKinds \cup {"KeyError", "TypeError", "AttributeError", "TransportError"}

\* outcome of an opaque Action chosen by its environment
Outcomes == {"ok"} \cup FailureKinds

(* ------------------------------ Actions -------------------------------- *)

\* the value stored under "action" in a KeyConfig
Action(kind, target, key) == [kind |-> kind, target |-> target, key |-> key]

ActSwitch(name) == Action("switch", name, -1)
ActPlain        == Action("plain", None, -1)
ActExit         == Action("exit", None, -1)
ActToggleMic(k) == Action("toggle_mic", None, k)
ActNonCallable  == Action("noncallable", None, -1)
\* the KeyConfig has no "action" entry at all
ActMissing      == Action("missing", None, -1)

KeyConfig(label, icon, color, action) ==
    [label |-> label, icon |-> icon, color |-> color, action |-> action]

(* ------------------------------ icon files ----------------------------- *)

\* state of the file ICONS_DIR / icon: "ok" (exists and loads), "missing"
\* (does not exist), "unreadable" (exists, Image.open raises)
IconStatus(icon) ==
    CASE icon = "gone.png"    -> "missing"
      [] icon = "corrupt.png" -> "unreadable"
      [] OTHER                -> "ok"

(* ------------------------------ Registry ------------------------------- *)

\* the module global "layouts": Python None, or a dict name -> layout
NoLayouts == [is_none |-> TRUE, map |-> <<>>]

Registry(map) == [is_none |-> FALSE, map |-> map]

\* a layout that maps no key
EmptyLayout == <<>>

\* the registry of the dispatch scenarios: a back key leading to an empty
\* layout, and one opaque Action on key 3
RegScenario == Registry(
    [n \in {"main", "other"} |->
        IF n = "main"
        THEN (0 :> KeyConfig(None, "back.png", None, ActSwitch("other")))
             @@ (3 :> KeyConfig("Boom", None, "pink", ActPlain))
        ELSE EmptyLayout])

\* a registry shaped like the one create_layouts builds: a main layout whose
\* keys switch to sub-layouts (one target is not defined) and toggle the
\* microphone, and sub-layouts with a back key; key 3 of "apps" and key 2 of
\* "tools" are entries that set no label, no icon, no colour and no action
RegApp == Registry(
    [n \in {"main", "apps", "tools"} |->
        CASE n = "main" ->
                 (0 :> KeyConfig(None, "apps_layout.png", None, ActSwitch("apps")))
              @@ (1 :> KeyConfig(None, "gone.png", "#fdff8a", ActSwitch("tools")))
              @@ (2 :> KeyConfig("Ghost", None, None, ActSwitch("ghost")))
              @@ (3 :> KeyConfig(None, "mic-fill.png", None, ActToggleMic(3)))
          [] n = "apps" ->
                 (0 :> KeyConfig(None, "back.png", "white", ActSwitch("main")))
              @@ (1 :> KeyConfig("List envs", None, "#1c2e1c", ActPlain))
              @@ (2 :> KeyConfig("Quit", None, None, ActExit))
              @@ (3 :> KeyConfig(None, None, None, ActMissing))
          [] n = "tools" ->
                 (0 :> KeyConfig(None, "back.png", "white", ActSwitch("main")))
              @@ (1 :> KeyConfig("Zenith", "corrupt.png", None, ActPlain))
              @@ (2 :> KeyConfig(None, None, None, ActMissing))
              @@ (3 :> KeyConfig("Busybee", "nautilus.png", None, ActNonCallable))])

\* number of keys of the StreamDeck XL, the device create_layouts is written for
ShippedKeyCount == 32

\* a key of the shipped registry that runs an opaque Action (open an editor,
\* a URL, a terminal, type a text); the icon files of these keys are not
\* told apart
Opaque(label, color) == KeyConfig(label, IF label = None THEN "app.png" ELSE None, color, ActPlain)

\* the sub-layouts create_layouts defines next to "main"
ShippedSubLayouts ==
    {"apps", "git_layout", "busybee_layout", "python_layout", "html_layout",
     "css_layout", "javascript_layout", "conda_layout", "terminal_layout"}

\* the key every sub-layout starts with: back to "main"
BackKey == KeyConfig(None, "back.png", "white", ActSwitch("main"))

\* variant of ShippedMain: key 30 names its target after its icon file
ShippedMain_AppsTypo ==
    [k \in (0 .. 8) \cup (12 .. 17) \cup (20 .. 31) |->
        CASE k = 30 -> KeyConfig(None, "apps_layout.png", None, ActSwitch("apps_layout"))
          [] k = 31 -> KeyConfig(None, "mic-fill.png", None, ActToggleMic(31))
          [] OTHER  -> Opaque(None, None)]

\* layouts["main"] of create_layouts
ShippedMain ==
    [k \in (0 .. 8) \cup (12 .. 17) \cup (20 .. 31) |->
        CASE k = 5  -> KeyConfig(None, "git_layout.png", None, ActSwitch("git_layout"))
          [] k = 7  -> KeyConfig(None, "busybee_layout.png", "#fdff8a", ActSwitch("busybee_layout"))
          [] k = 13 -> KeyConfig("Zenith", "nautilus.png", None, ActPlain)
          [] k = 14 -> KeyConfig("Busybee", "nautilus.png", None, ActPlain)
          [] k = 24 -> KeyConfig(None, "python_layout.png", None, ActSwitch("python_layout"))
          [] k = 25 -> KeyConfig(None, "html_layout.png", None, ActSwitch("html_layout"))
          [] k = 26 -> KeyConfig(None, "css_layout.png", None, ActSwitch("css_layout"))
          [] k = 27 -> KeyConfig(None, "javascript_layout.png", None, ActSwitch("javascript_layout"))
          [] k = 28 -> KeyConfig(None, "conda_layout.png", None, ActSwitch("conda_layout"))
          [] k = 29 -> KeyConfig(None, "terminal_layout.png", None, ActSwitch("terminal_layout"))
          [] k = 30 -> KeyConfig(None, "apps_layout.png", None, ActSwitch("apps"))
          [] k = 31 -> KeyConfig(None, "mic-fill.png", None, ActToggleMic(31))
          [] OTHER  -> Opaque(None, None)]

\* the dict create_layouts returns
RegShipped == Registry(
    [n \in {"main"} \cup ShippedSubLayouts |->
        CASE n = "main" -> ShippedMain
          [] n = "apps" ->
                [k \in 0 .. 2 |-> IF k = 0 THEN BackKey ELSE Opaque(None, None)]
          [] n = "python_layout" ->
                [k \in 0 .. 1 |-> IF k = 0 THEN BackKey ELSE Opaque("Simple Snippet", "#1c2e1c")]
          [] n = "conda_layout" ->
                [k \in 0 .. 13 |-> IF k = 0 THEN BackKey ELSE Opaque("List envs", "#1c2e1c")]
          [] OTHER ->
                [k \in 0 .. 0 |-> BackKey]])

\* the values the global "layouts" starts with: unset, an empty dict, or a
\* built registry
InitialLayouts == {NoLayouts, Registry(<<>>), RegScenario, RegApp}

\* layout names switch_layout is called with after the registry is built: one
\* every registry defines and one none defines
LayoutNames == {"main", "ghost"}

\* Python truth value of "layouts": None and {} are falsy
LayoutsTruthy(ls) == ~ls.is_none /\ DOMAIN ls.map # {}

\* "name in layouts"
InLayouts(ls, name) == ~ls.is_none /\ name \in DOMAIN ls.map

(* ------------------------------ Device --------------------------------- *)

\* one call made on the device (or, for cleanup, on ydotool)
Call(op, arg) == [op |-> op, arg |-> arg]

\* what a key shows after deck.reset()
Blank == [mode |-> "blank", fill |-> "black", icon |-> None, text |-> None]

Image(mode, fill, icon, text) == [mode |-> mode, fill |-> fill, icon |-> icon, text |-> text]

\* fixed operating brightness passed to deck.set_brightness
Brightness == 100

(* ------------------------------ Renderer ------------------------------- *)

\* variant of KeyImage: the canvas is tinted by the layout on display when
\* the key is drawn
KeyImage_TintedByLayout(label, icon, color) ==
    [raised |-> NoExc,
     image |-> Image("color", IF current_layout = "main" THEN "black" ELSE "red",
                     None, None)]

\* the key image render_keys composes, or the exception composing it raises:
\* the four cases on the presence of label and icon
KeyImage(label, icon, color) ==
    CASE Truthy(label) /\ Truthy(icon) ->
            CASE IconStatus(icon) = "ok" ->
                    [raised |-> NoExc, image |-> Image("icon+label", color, icon, label)]
              [] IconStatus(icon) = "missing" ->
                    [raised |-> NoExc, image |-> Image("icon+label", "red", None, label)]
              [] OTHER ->
                    [raised |-> "OSError", image |-> Blank]
      [] Truthy(label) /\ ~Truthy(icon) ->
            [raised |-> NoExc, image |-> Image("label", color, None, label)]
      [] ~Truthy(label) /\ Truthy(icon) ->
            CASE IconStatus(icon) = "ok" ->
                    [raised |-> NoExc, image |-> Image("icon", color, icon, None)]
              [] IconStatus(icon) = "missing" ->
                    [raised |-> NoExc, image |-> Image("icon", "red", None, None)]
              [] OTHER ->
                    [raised |-> "OSError", image |-> Blank]
      [] OTHER ->
            [raised |-> NoExc,
             image |-> Image("color", IF Truthy(color) THEN color ELSE "red", None, None)]

\* the result of a rendering step: the exception that left it, the device
\* calls it issued, and the images the device shows afterwards
Rendered(exc, cs, imgs) == [raised |-> exc, calls |-> cs, images |-> imgs]

\* render_keys(deck, key, label, icon, color): raises when the render module is
\* not initialised or the icon cannot be opened, else composes the image and
\* pushes it with deck.set_key_image, which needs an open device
render_keys(dk, key, label, icon, color, imgs) ==
    IF ~render_init
    THEN Rendered("RuntimeError", <<>>, imgs)
    ELSE LET r == KeyImage(label, icon, color) IN
         CASE r.raised # NoExc -> Rendered(r.raised, <<>>, imgs)
           [] dk = "absent"    -> Rendered("AttributeError", <<>>, imgs)
           [] dk = "closed"    -> Rendered("TransportError", <<>>, imgs)
           [] OTHER            -> Rendered(NoExc, <<Call("set_key_image", key)>>,
                                           [imgs EXCEPT ![key] = r.image])

\* config.get("color", "black")
ColorOf(config) == IF config.color = None THEN "black" ELSE config.color

\* the arguments render_layout passes to render_keys for one entry of the
\* layout: config.get("label"), config.get("icon"), config.get("color", "black")
LayoutArgs(config) ==
    [label |-> config.label, icon |-> config.icon, color |-> ColorOf(config)]

\* the smallest key of a non-empty set: layout.items() yields the keys in the
\* order create_layouts wrote them, which is ascending
MinKey(ks) == CHOOSE k \in ks : \A j \in ks : k <= j

\* the loop of render_layout over the keys "todo" still to draw; it ends at
\* the first key whose render_keys raises
RECURSIVE RenderItems(_, _, _, _)
RenderItems(dk, layout, todo, acc) ==
    IF todo = {} \/ acc.raised # NoExc
    THEN acc
    ELSE LET k == MinKey(todo)
             a == LayoutArgs(layout[k])
             r == render_keys(dk, k, a.label, a.icon, a.color, acc.images)
         IN  RenderItems(dk, layout, todo \ {k},
                         Rendered(r.raised, acc.calls \o r.calls, r.images))

\* variant of ResetAndBrightness: the reset is left out and the display keeps
\* what it showed
ResetAndBrightness_NoReset(imgs) ==
    Rendered(NoExc, <<Call("set_brightness", Brightness)>>, imgs)

\* variant of ResetAndBrightness: the brightness is never set
ResetAndBrightness_NoBrightness(imgs) ==
    Rendered(NoExc, <<Call("reset", 0)>>, [k \in DOMAIN imgs |-> Blank])

\* variant of ResetAndBrightness: the brightness is set before the reset
ResetAndBrightness_Swapped(imgs) ==
    Rendered(NoExc, <<Call("set_brightness", Brightness), Call("reset", 0)>>,
             [k \in DOMAIN imgs |-> Blank])

\* deck.reset() followed by deck.set_brightness(100)
ResetAndBrightness(imgs) ==
    Rendered(NoExc, <<Call("reset", 0), Call("set_brightness", Brightness)>>,
             [k \in DOMAIN imgs |-> Blank])

\* render_layout(deck, layout): nothing when the device is absent or not open,
\* else reset, brightness, and one render_keys per key of the layout
render_layout(dk, layout, imgs) ==
    IF dk # "open"
    THEN Rendered(NoExc, <<>>, imgs)
    ELSE RenderItems(dk, layout, DOMAIN layout, ResetAndBrightness(imgs))

(* ------------------------------ text layout --------------------------- *)

\* the characters labels are made of: a letter and the space
Alphabet == {"a", " "}

\* a label argument of render_keys: None, or a str given by its characters
NoLabel == [is_none |-> TRUE, chars |-> <<>>]

Label(chars) == [is_none |-> FALSE, chars |-> chars]

\* the label as the mode selection sees it: None, "" or a non-empty str
LabelToken(l) == IF l.is_none THEN None ELSE IF l.chars = <<>> THEN "" ELSE "text"

Min(a, b) == IF a < b THEN a ELSE b

Max(a, b) == IF a > b THEN a ELSE b

\* the Python slice s[:n]: the first n items for n >= 0, all but the last -n
\* items for n < 0
PySlice(s, n) ==
    IF n >= 0
    THEN SubSeq(s, 1, Min(n, Len(s)))
    ELSE SubSeq(s, 1, Max(0, Len(s) + n))

\* chars_per_line = max(1, int(key_image.width // avg_char_width)), "fit" being
\* the quotient
CharsPerLine(fit) == Max(1, fit)

Ellipsis == <<".", ".", ".">>

\* variant of DisplayText: the label is cut to chars_per_line characters
\* before the dots are added
DisplayText_NoRoomForDots(chars, chars_per_line) ==
    IF Len(chars) > chars_per_line
    THEN PySlice(chars, chars_per_line) \o Ellipsis
    ELSE chars

\* display_text of case 1: label[:chars_per_line-3] + "..." for a label longer
\* than a line, else the label
DisplayText(chars, chars_per_line) ==
    IF Len(chars) > chars_per_line
    THEN PySlice(chars, chars_per_line - 3) \o Ellipsis
    ELSE chars

\* a chunk of textwrap that holds nothing but whitespace
IsBlank(chunk) == \A i \in DOMAIN chunk : chunk[i] = " "

\* length of the run of characters of one kind (whitespace or not) that
\* starts a non-empty text
RunLen(s) ==
    CHOOSE n \in 1 .. Len(s) :
        /\ \A i \in 1 .. n : (s[i] = " ") = (s[1] = " ")
        /\ n = Len(s) \/ (s[n + 1] = " ") # (s[1] = " ")

\* TextWrapper._split_chunks: words and runs of whitespace, in order
RECURSIVE SplitChunks(_)
SplitChunks(s) ==
    IF s = <<>>
    THEN <<>>
    ELSE <<SubSeq(s, 1, RunLen(s))>> \o SplitChunks(SubSeq(s, RunLen(s) + 1, Len(s)))

\* the inner loop of TextWrapper._wrap_chunks: chunks are taken while they fit
RECURSIVE FillLine(_, _, _, _)
FillLine(chunks, cur, len, width) ==
    IF chunks # <<>> /\ len + Len(Head(chunks)) <= width
    THEN FillLine(Tail(chunks), Append(cur, Head(chunks)), len + Len(Head(chunks)), width)
    ELSE [cur |-> cur, len |-> len, rest |-> chunks]

\* TextWrapper._handle_long_word with break_long_words: a chunk longer than
\* the width is cut to the space left on the line
LongWord(f, width) ==
    IF f.rest # <<>> /\ Len(Head(f.rest)) > width
    THEN LET space_left == IF width < 1 THEN 1 ELSE width - f.len
             word == Head(f.rest)
         IN  [cur  |-> Append(f.cur, SubSeq(word, 1, space_left)),
              len  |-> f.len + space_left,
              rest |-> <<SubSeq(word, space_left + 1, Len(word))>> \o Tail(f.rest)]
    ELSE f

\* drop_whitespace: a line does not end with a whitespace chunk
DropTrailing(cur) ==
    IF cur # <<>> /\ IsBlank(cur[Len(cur)])
    THEN SubSeq(cur, 1, Len(cur) - 1)
    ELSE cur

\* "".join(cur_line)
RECURSIVE Join(_)
Join(cur) == IF cur = <<>> THEN <<>> ELSE Head(cur) \o Join(Tail(cur))

\* the outer loop of TextWrapper._wrap_chunks
RECURSIVE WrapChunks(_, _, _)
WrapChunks(chunks, lines, width) ==
    IF chunks = <<>>
    THEN lines
    ELSE LET todo == IF IsBlank(Head(chunks)) /\ lines # <<>> THEN Tail(chunks) ELSE chunks
             f    == LongWord(FillLine(todo, <<>>, 0, width), width)
             cur  == DropTrailing(f.cur)
         IN  WrapChunks(f.rest,
                        IF cur # <<>> THEN Append(lines, Join(cur)) ELSE lines,
                        width)

\* textwrap.wrap(label, width=chars_per_line)
Wrap(chars, width) == WrapChunks(SplitChunks(chars), <<>>, width)

\* one call draw.text((x, y), text=...): the text and its top edge
DrawText(text, y) == [text |-> text, y |-> y]

\* variant of StartY: the block is centred as if it had one line
StartY_OneLine(height, line_count, line_height) == (height - line_height) \div 2

\* start_y = (key_image.height - total_text_height) // 2
StartY(height, line_count, line_height) == (height - line_count * line_height) \div 2

\* the loop "for i, line in enumerate(wrapped_lines)" of case 2
LabelLines(lines, height, line_height) ==
    [i \in 1 .. Len(lines) |->
        DrawText(lines[i], StartY(height, Len(lines), line_height) + (i - 1) * line_height)]

\* the draw.text calls of render_keys: one line at the bottom in case 1 (also
\* on the fallback canvas of a missing icon), the wrapped lines in case 2,
\* none otherwise
TextDrawn(label, icon, fit, height, line_height) ==
    CASE Truthy(LabelToken(label)) /\ Truthy(icon) ->
            IF IconStatus(icon) = "unreadable"
            THEN <<>>
            ELSE <<DrawText(DisplayText(label.chars, CharsPerLine(fit)), height - 20)>>
      [] Truthy(LabelToken(label)) ->
            LabelLines(Wrap(label.chars, CharsPerLine(fit)), height, line_height)
      [] OTHER -> <<>>

(* --------------------------- Layout controller ------------------------- *)

\* what running a callable did: the globals and device images it leaves, the
\* device calls it issued, the exception that left it and the number of
\* assignments it made to current_layout
Effect(cur, imgs, m, cs, exc, w) ==
    [current_layout |-> cur, images |-> imgs, muted |-> m,
     calls |-> cs, raised |-> exc, writes |-> w]

\* a callable that returns without touching anything
NoEffect == Effect(current_layout, images, muted, <<>>, NoExc, 0)

\* the condition of the closure: "layouts and layout_name in layouts"
SwitchGuard(layout_name) ==
    LayoutsTruthy(layouts) /\ InLayouts(layouts, layout_name)

\* variant of SwitchAndRender: without "global current_layout" the assignment
\* binds a local name and the module global keeps its value
SwitchAndRender_LocalAssign(layout_name) ==
    LET r == render_layout(deck, layouts.map[layout_name], images)
    IN  Effect(current_layout, r.images, muted, r.calls, r.raised, 0)

\* the branch taken for a known layout: assign current_layout, then redraw
SwitchAndRender(layout_name) ==
    LET r == render_layout(deck, layouts.map[layout_name], images)
    IN  Effect(layout_name, r.images, muted, r.calls, r.raised, 1)

\* variant of IgnoreUnknown: the else branch clears the display
IgnoreUnknown_ClearsDeck(layout_name) ==
    IF deck = "open"
    THEN Effect(current_layout, [k \in DOMAIN images |-> Blank], muted,
                <<Call("reset", 0)>>, NoExc, 0)
    ELSE NoEffect

\* variant of IgnoreUnknown: current_layout is assigned before the name is
\* validated
IgnoreUnknown_Assigns(layout_name) ==
    Effect(layout_name, images, muted, <<>>, NoExc, 1)

\* variant of IgnoreUnknown: an unknown target clears current_layout
IgnoreUnknown_Clears(layout_name) ==
    Effect(None, images, muted, <<>>, NoExc, 1)

\* the else branch of the closure: "pass"
IgnoreUnknown(layout_name) == NoEffect

\* the closure "wrapper" that switch_layout(layout_name) returns
wrapper(layout_name) ==
    IF SwitchGuard(layout_name)
    THEN SwitchAndRender(layout_name)
    ELSE IgnoreUnknown(layout_name)

\* variant of Construct: "return wrapper()" in place of "return wrapper" runs
\* the closure while the registry is being built
Construct_CallsWrapper(layout_name) == wrapper(layout_name)

\* the body of switch_layout(layout_name) itself: it defines the closure and
\* returns it, and runs nothing
Construct(layout_name) == NoEffect

(* ------------------------------ Actions -------------------------------- *)

\* the arguments toggle_mic passes to render_keys for mute state m: the
\* label and icon of the state, and the default colour
MicArgs(m) ==
    [label |-> IF m THEN "OFF" ELSE "ON",
     icon |-> IF m THEN "mic-off.png" ELSE "mic-on.png",
     color |-> "black"]

\* variant of toggle_mic: the refresh redraws the whole current layout
toggle_mic_FullRedraw(key, outcome) ==
    IF outcome # "ok"
    THEN Effect(current_layout, images, muted, <<>>, outcome, 0)
    ELSE LET r == render_layout(deck, layouts.map[current_layout], images)
         IN  Effect(current_layout, r.images, ~muted, r.calls, r.raised, 0)

\* the closure of actions.toggle_mic(deck, key): toggle the capture device
\* with amixer (outcome: whether the subprocess could be started), read the
\* mute state back and redraw the one key with the ON/OFF label and icon
toggle_mic(key, outcome) ==
    IF outcome # "ok"
    THEN Effect(current_layout, images, muted, <<>>, outcome, 0)
    ELSE LET m == ~muted
             a == MicArgs(m)
             r == render_keys(deck, key, a.label, a.icon, a.color, images)
         IN  Effect(current_layout, r.images, m, r.calls, r.raised, 0)

\* calling the value stored under "action": a layout switch, the microphone
\* toggle, an opaque Action that succeeds or fails as its environment decides,
\* an Action that asks the interpreter to exit, or a value that is not callable
Invoke(action, outcome) ==
    CASE action.kind = "switch"      -> wrapper(action.target)
      [] action.kind = "toggle_mic"  -> toggle_mic(action.key, outcome)
      [] action.kind = "plain"       ->
            Effect(current_layout, images, muted, <<>>,
                   IF outcome = "ok" THEN NoExc ELSE outcome, 0)
      [] action.kind = "exit"        ->
            Effect(current_layout, images, muted, <<>>, "SystemExit", 0)
      [] OTHER                       ->
            Effect(current_layout, images, muted, <<>>, "TypeError", 0)

(* --------------------------- Input dispatcher -------------------------- *)

\* variant of IsPress: the release filter is missing
IsPress_Always(state) == TRUE

\* "if not state: return" lets only press events through
IsPress(state) == state

\* variant of DispatchLayout: the key is looked up in the starting layout
DispatchLayout_Main == layouts.map["main"]

\* the layout the dispatcher looks the key up in: layouts[current_layout]
DispatchLayout == layouts.map[current_layout]

\* the KeyConfig the dispatcher fetches: layouts[current_layout][key]
DispatchConfig(key) == DispatchLayout[key]

\* the place of a stored Action: the layout and key it is stored under
Stored(name, key, action) == [layout |-> name, key |-> key, action |-> action]

\* variant of Propagated: "except RuntimeError" in place of "except Exception"
Propagated_OnlyRuntimeError(exc) == IF exc = "RuntimeError" THEN NoExc ELSE exc

\* what "except Exception" lets out of key_change: nothing for an Exception,
\* the exception itself otherwise
Propagated(exc) == IF IsException(exc) THEN NoExc ELSE exc

\* variant of Suppress: the handler falls back to the main layout
Suppress_ResetsLayout(e) ==
    IF e.raised # NoExc
    THEN [e EXCEPT !.raised = Propagated(e.raised), !.current_layout = "main"]
    ELSE e

\* "except Exception: pass": the Effect of the Action stays as it is, its
\* exception is dropped
Suppress(e) == [e EXCEPT !.raised = Propagated(e.raised)]

\* what one call key_change(deck, key, state) did: the Effect of the call, the
\* Actions it invoked and the exception its Action raised
Dispatch(eff, inv, exc) == [effect |-> eff, invoked |-> inv, action_exc |-> exc]

\* the try block of key_change: fetch key_config["action"] and call it; an
\* Exception is swallowed, the state changes made before it stay
TryAction(key, outcome) ==
    LET action == DispatchConfig(key).action IN
    CASE action.kind = "missing" ->
            Dispatch(NoEffect, <<>>, "KeyError")
      [] action.kind = "noncallable" ->
            Dispatch(NoEffect, <<>>, "TypeError")
      [] OTHER ->
            LET e == Invoke(action, outcome) IN
            Dispatch(Suppress(e), <<Stored(current_layout, key, action)>>, e.raised)

\* "if not state: return": a release event ends the handler at once
Released == Dispatch(NoEffect, <<>>, NoExc)

\* variant of Discarded: the lookup is made without the validation and raises
Discarded_Raises == Dispatch([NoEffect EXCEPT !.raised = "KeyError"], <<>>, NoExc)

\* "return  # Ignore undefined keys or uninitialized state"
Discarded == Dispatch(NoEffect, <<>>, NoExc)

\* key_change(deck, key, state): the release filter, the validation of the
\* state (layouts[current_layout] raises KeyError for a name that is no key
\* of layouts), then the try block
KeyChangeResult(key, state, outcome) ==
    CASE ~IsPress(state) ->
            Released
      [] ~LayoutsTruthy(layouts) \/ ~Truthy(current_layout) ->
            Discarded
      [] ~InLayouts(layouts, current_layout) ->
            Dispatch([NoEffect EXCEPT !.raised = "KeyError"], <<>>, NoExc)
      [] key \notin DOMAIN DispatchLayout ->
            Discarded
      [] OTHER ->
            TryAction(key, outcome)

(* ------------------------------ Lifecycle ------------------------------ *)

\* variant of AlreadyCleaned: the flag is never consulted
AlreadyCleaned_NotChecked == FALSE

\* "if clean_stickykeys: return": cleanup has been entered before
AlreadyCleaned == clean_stickykeys

\* the body of cleanup(deck) after the flag is set: release_all_keys() (which
\* raises when the module is not initialised or ydotool cannot be started),
\* then reset and close an open device; any Exception is printed and dropped
CleanupBody(release) ==
    IF release # "ok"
    THEN Rendered(NoExc, <<>>, images)
    ELSE IF deck = "open"
         THEN Rendered(NoExc,
                       <<Call("release_all_keys", 0), Call("reset", 0), Call("close", 0)>>,
                       [k \in DOMAIN images |-> Blank])
         ELSE Rendered(NoExc, <<Call("release_all_keys", 0)>>, images)

(* ------------------------------ the steps ------------------------------ *)

\* the key of the dispatch that ran last if its Action raised, else -1
FailedKey ==
    IF last.op = "key_change" /\ invoked # <<>> /\ last.action_exc # NoExc
    THEN last.key
    ELSE -1

\* the record of the handler that ran last: the operation and its arguments,
\* current_layout before it ran, the exception its Action raised, and the key
\* of the handler before it if that was a dispatch whose Action raised
Ran(op, key, state, name, exc) ==
    [op |-> op, key |-> key, state |-> state, name |-> name,
     before |-> current_layout, action_exc |-> exc, after_failure |-> FailedKey]

\* the layout names the switch Actions stored in a registry were built for
SwitchTargets(ls) ==
    IF ls.is_none THEN {}
    ELSE UNION {{ls.map[n][k].action.target :
                    k \in {j \in DOMAIN ls.map[n] : ls.map[n][j].action.kind = "switch"}} :
                n \in DOMAIN ls.map}

\* one image render_keys pushed: the arguments it was called with, the image
\* the device shows for the key, and whether the same call gave the same
\* image once (1) or more than once (2)
Push(a, image, n) == [args |-> a, image |-> image, n |-> n]

\* the pushes made so far after the handler that ran last made the pushes
\* "new"
Recorded(hist, new) ==
    {Push(p.args, p.image,
          IF \E x \in new : x.args = p.args /\ x.image = p.image THEN 2 ELSE p.n) :
        p \in hist}
    \cup {x \in new : \A p \in hist : p.args # x.args \/ p.image # x.image}

\* the images the handler that ran last pushed, each with the arguments of
\* its render_keys call: those of a full redraw (one per set_key_image call,
\* with the arguments of the entry of the target layout) and the one of a
\* single-key refresh
PushedNow ==
    LET pushed == {calls[i].arg : i \in {j \in DOMAIN calls : calls[j].op = "set_key_image"}}
        target == IF last.op = "wrapper" THEN {last.name}
                  ELSE {invoked[i].action.target :
                          i \in {j \in DOMAIN invoked : invoked[j].action.kind = "switch"}}
        mic == {invoked[i].action.key :
                  i \in {j \in DOMAIN invoked : invoked[j].action.kind = "toggle_mic"}}
    IN  {Push(LayoutArgs(layouts.map[t][k]), images[k], 1) :
            t \in target, k \in pushed}
        \cup {Push(MicArgs(muted), images[k], 1) : k \in mic \cap pushed}

\* no direct call of render_keys is under way
NoArgs == [key |-> -1, label |-> NoLabel, icon |-> None, color |-> None,
           fit |-> 0, height |-> 0, line_height |-> 0]

\* render_keys has not drawn
NotDrawn == [done |-> FALSE, text |-> <<>>]

\* the state after the modules are imported and initialised: the globals of
\* the logic module as init_jarvis / initialize_logic store them (the initial
\* layout name is stored as given), the render module initialised or not, the
\* device blank
Init ==
    /\ layouts \in InitialLayouts
    /\ current_layout \in {None, "main", "ghost"} \cup
                          (IF layouts.is_none THEN {} ELSE DOMAIN layouts.map)
    /\ deck \in (IF LayoutsTruthy(layouts) THEN {"open"} ELSE {"absent", "open"})
    /\ images = [k \in Keys |-> Blank]
    /\ render_init \in BOOLEAN
    /\ muted = FALSE
    /\ clean_stickykeys = FALSE
    /\ wrappers = SwitchTargets(layouts)
    /\ last = [op |-> "init", key |-> -1, state |-> FALSE, name |-> None,
               before |-> current_layout, action_exc |-> NoExc,
               after_failure |-> -1]
    /\ calls = <<>>
    /\ invoked = <<>>
    /\ raised = NoExc
    /\ writes = 0
    /\ args = NoArgs
    /\ drawing = NotDrawn
    /\ queue = <<>>
    /\ running = <<>>
    /\ rendered = {}
    /\ pending = <<>>

\* the globals and the device after a callable with Effect e ran
Apply(e) ==
    /\ current_layout' = e.current_layout
    /\ images' = e.images
    /\ muted' = e.muted
    /\ calls' = e.calls
    /\ raised' = e.raised
    /\ writes' = e.writes

\* one call key_change(deck, key, state), "outcome" being what the environment
\* makes of an opaque Action it invokes
KeyEvent(key, state, outcome) ==
    LET d == KeyChangeResult(key, state, outcome) IN
    /\ Apply(d.effect)
    /\ invoked' = d.invoked
    /\ last' = Ran("key_change", key, state, None, d.action_exc)
    /\ UNCHANGED <<layouts, deck, render_init, clean_stickykeys, wrappers>>
    /\ UNCHANGED <<args, drawing>>

\* the device library delivers one key event to key_change, which runs to its
\* end
key_change ==
    \E key \in DOMAIN images, state \in BOOLEAN, outcome \in Outcomes :
        /\ KeyEvent(key, state, outcome)
        /\ UNCHANGED <<queue, running, rendered, pending>>

\* the device library delivers a press, and the environment lets the opaque
\* Action it invokes succeed
key_press ==
    \E key \in DOMAIN images :
        /\ KeyEvent(key, TRUE, "ok")
        /\ UNCHANGED <<queue, running, rendered, pending>>

\* switch_layout(layout_name) is called: it only builds the closure
switch_layout ==
    \E layout_name \in LayoutNames :
        /\ wrappers' = wrappers \cup {layout_name}
        /\ Apply(Construct(layout_name))
        /\ invoked' = <<>>
        /\ last' = Ran("switch_layout", -1, FALSE, layout_name, NoExc)
        /\ UNCHANGED <<layouts, deck, render_init, clean_stickykeys>>
        /\ UNCHANGED <<args, drawing, queue, running, rendered, pending>>

\* one direct call of the closure switch_layout(layout_name) returned
WrapperCall(layout_name) ==
    LET e == wrapper(layout_name) IN
    /\ Apply(e)
    /\ invoked' = <<>>
    /\ last' = Ran("wrapper", -1, FALSE, layout_name, e.raised)
    /\ UNCHANGED <<layouts, deck, render_init, clean_stickykeys, wrappers>>
    /\ UNCHANGED <<args, drawing, queue, running, pending>>

\* a closure built by switch_layout is called directly
call_wrapper ==
    \E layout_name \in wrappers :
        /\ WrapperCall(layout_name)
        /\ UNCHANGED rendered

\* cleanup(deck) is called (SIGINT handler, atexit hook or by hand)
cleanup ==
    \E release \in {"ok", "RuntimeError", "OSError"} :
        /\ IF AlreadyCleaned
           THEN /\ Apply(NoEffect)
                /\ UNCHANGED <<deck, clean_stickykeys>>
           ELSE LET r == CleanupBody(release) IN
                /\ clean_stickykeys' = TRUE
                /\ deck' = IF release = "ok" /\ deck = "open" THEN "closed" ELSE deck
                /\ Apply(Effect(current_layout, r.images, muted, r.calls, NoExc, 0))
        /\ invoked' = <<>>
        /\ last' = Ran("cleanup", -1, FALSE, None, NoExc)
        /\ UNCHANGED <<layouts, render_init, wrappers>>
        /\ UNCHANGED <<args, drawing, queue, running, rendered, pending>>

Next ==
    \/ key_change
    \/ switch_layout
    \/ call_wrapper
    \/ cleanup

Spec == Init /\ [][Next]_vars

\* the labels render_keys is called with: None and every str of up to
\* MaxLabelLen characters
Labels ==
    {NoLabel} \cup {Label(chars) : chars \in UNION {[1 .. n -> Alphabet] : n \in 0 .. MaxLabelLen}}

\* the icon arguments: None, "", a file that loads, one that does not exist
\* and one that exists and is no image
Icons == {None, "", "back.png", "gone.png", "corrupt.png"}

\* the color arguments: "" (falsy), the default and a configured colour
Colors == {"", "black", "pink"}

\* heights of the key image of the supported devices, in pixels
CanvasHeights == {72, 96}

\* heights of the bounding box of "Ay" in the font, in pixels
LineHeights == {19, 25}

\* the arguments of one call render_keys(deck, key, label, icon, color) and the
\* metrics of the key image and of the font it finds
RenderArgs ==
    [key : {0, KeyCount - 1}, label : Labels, icon : Icons, color : Colors,
     fit : 0 .. MaxCharsPerLine, height : CanvasHeights, line_height : LineHeights]

\* the renderer on its own: the render module is initialised, the device is
\* open and blank, and render_keys is about to be called with any arguments
InitRender ==
    /\ layouts = NoLayouts
    /\ current_layout = None
    /\ deck = "open"
    /\ images = [k \in Keys |-> Blank]
    /\ render_init = TRUE
    /\ muted = FALSE
    /\ clean_stickykeys = FALSE
    /\ wrappers = {}
    /\ last = [op |-> "init", key |-> -1, state |-> FALSE, name |-> None,
               before |-> current_layout, action_exc |-> NoExc,
               after_failure |-> -1]
    /\ calls = <<>>
    /\ invoked = <<>>
    /\ raised = NoExc
    /\ writes = 0
    /\ args \in RenderArgs
    /\ drawing = NotDrawn
    /\ queue = <<>>
    /\ running = <<>>
    /\ rendered = {}
    /\ pending = <<>>

\* the call render_keys(deck, args.key, args.label, args.icon, args.color)
render_keys_call ==
    LET r == render_keys(deck, args.key, LabelToken(args.label), args.icon,
                         args.color, images)
    IN  /\ ~drawing.done
        /\ images' = r.images
        /\ calls' = r.calls
        /\ raised' = r.raised
        /\ drawing' = [done |-> TRUE,
                       text |-> IF r.raised = NoExc
                                THEN TextDrawn(args.label, args.icon, args.fit,
                                               args.height, args.line_height)
                                ELSE <<>>]
        /\ invoked' = <<>>
        /\ writes' = 0
        /\ last' = Ran("render_keys", args.key, FALSE, None, r.raised)
        /\ UNCHANGED <<current_layout, layouts, deck, render_init, muted,
                       clean_stickykeys, wrappers, args, queue, running,
                       rendered, pending>>

RenderSpec == InitRender /\ [][render_keys_call]_vars

\* one key event as the hardware reports it
Event(key, state) == [key |-> key, state |-> state]

\* variant of Entered: key_change hands the Action to a thread of its own and
\* returns to the device library while the Action runs
Entered_Detached(ev) == [key |-> ev.key, state |-> ev.state, in_callback |-> FALSE]

\* an execution of key_change under way: key_change calls action_function()
\* itself, so the callback has not returned to the device library until the
\* Action has
Entered(ev) == [key |-> ev.key, state |-> ev.state, in_callback |-> TRUE]

\* the delivery context of the device library is not inside a callback
ReaderIdle == \A i \in DOMAIN running : ~running[i].in_callback

\* all but item i of a sequence
Without(seq, i) == SubSeq(seq, 1, i - 1) \o SubSeq(seq, i + 1, Len(seq))

\* the dispatcher on its own delivery context: the scenario registry shown on
\* an open device, no event reported yet
InitDelivery ==
    /\ layouts = RegScenario
    /\ current_layout = "main"
    /\ deck = "open"
    /\ images = [k \in Keys |-> Blank]
    /\ render_init = TRUE
    /\ muted = FALSE
    /\ clean_stickykeys = FALSE
    /\ wrappers = SwitchTargets(layouts)
    /\ last = [op |-> "init", key |-> -1, state |-> FALSE, name |-> None,
               before |-> current_layout, action_exc |-> NoExc,
               after_failure |-> -1]
    /\ calls = <<>>
    /\ invoked = <<>>
    /\ raised = NoExc
    /\ writes = 0
    /\ args = NoArgs
    /\ drawing = NotDrawn
    /\ queue = <<>>
    /\ running = <<>>
    /\ rendered = {}
    /\ pending = <<>>

\* the hardware reports a key event; it waits until the device library
\* delivers it
hardware_event ==
    \E key \in DOMAIN images, state \in BOOLEAN :
        /\ Len(queue) < MaxQueue
        /\ queue' = Append(queue, Event(key, state))
        /\ UNCHANGED <<current_layout, layouts, deck, images, render_init, muted,
                       clean_stickykeys, wrappers, last, calls, invoked, raised,
                       writes, args, drawing, running, rendered, pending>>

\* the device library takes the oldest event and calls key_change with it,
\* once its delivery context is back from the previous callback
deliver ==
    /\ queue # <<>>
    /\ ReaderIdle
    /\ running' = Append(running, Entered(Head(queue)))
    /\ queue' = Tail(queue)
    /\ UNCHANGED <<current_layout, layouts, deck, images, render_init, muted,
                   clean_stickykeys, wrappers, last, calls, invoked, raised,
                   writes, args, drawing, rendered, pending>>

\* an execution of key_change under way reads the state, runs its Action
\* (however long that blocks) and returns
key_change_return ==
    \E i \in DOMAIN running, outcome \in Outcomes :
        /\ KeyEvent(running[i].key, running[i].state, outcome)
        /\ running' = Without(running, i)
        /\ UNCHANGED <<queue, rendered, pending>>

NextDelivery ==
    \/ hardware_event
    \/ deliver
    \/ key_change_return

DeliverySpec == InitDelivery /\ [][NextDelivery]_vars

\* the application-shaped registry on an open device with the modules
\* initialised, started on any of its layouts, nothing pushed yet
InitHistory ==
    /\ layouts = RegApp
    /\ current_layout \in DOMAIN layouts.map
    /\ deck = "open"
    /\ images = [k \in Keys |-> Blank]
    /\ render_init = TRUE
    /\ muted = FALSE
    /\ clean_stickykeys = FALSE
    /\ wrappers = SwitchTargets(layouts)
    /\ last = [op |-> "init", key |-> -1, state |-> FALSE, name |-> None,
               before |-> current_layout, action_exc |-> NoExc,
               after_failure |-> -1]
    /\ calls = <<>>
    /\ invoked = <<>>
    /\ raised = NoExc
    /\ writes = 0
    /\ args = NoArgs
    /\ drawing = NotDrawn
    /\ queue = <<>>
    /\ running = <<>>
    /\ rendered = {}
    /\ pending = <<>>

\* key_change runs for a press, and every image it pushes is recorded with
\* the arguments of its render_keys call
press_recorded ==
    \E key \in DOMAIN images, outcome \in Outcomes :
        /\ KeyEvent(key, TRUE, outcome)
        /\ rendered' = Recorded(rendered, PushedNow')
        /\ UNCHANGED <<queue, running, pending>>

\* a closure built by switch_layout is called directly, and every image it
\* pushes is recorded
wrapper_recorded ==
    \E layout_name \in wrappers :
        /\ WrapperCall(layout_name)
        /\ rendered' = Recorded(rendered, PushedNow')

NextHistory ==
    \/ press_recorded
    \/ wrapper_recorded

HistorySpec == InitHistory /\ [][NextHistory]_vars

\* one device call a rendering under way has still to make, with the image it
\* pushes when it is a set_key_image call
Planned(call, image) == [call |-> call, image |-> image]

\* the device calls of a full redraw that has passed the is_open() test of
\* render_layout, in the order the loop makes them
PlannedRedraw(layout) ==
    LET r == render_layout("open", layout, images) IN
    [i \in DOMAIN r.calls |->
        Planned(r.calls[i],
                IF r.calls[i].op = "set_key_image" THEN r.images[r.calls[i].arg] ELSE Blank)]

\* the device call of a single-key refresh: render_keys composes the image
\* and calls deck.set_key_image without asking whether the device is open
PlannedRefresh(key, a) ==
    LET r == KeyImage(a.label, a.icon, a.color) IN
    IF ~render_init \/ r.raised # NoExc
    THEN <<>>
    ELSE <<Planned(Call("set_key_image", key), r.image)>>

\* what the device shows after a call made while it is open
Shows(c) ==
    CASE c.call.op = "reset"         -> [k \in DOMAIN images |-> Blank]
      [] c.call.op = "set_key_image" -> [images EXCEPT ![c.call.arg] = c.image]
      [] OTHER                       -> images

\* the application-shaped registry shown on an open device, the modules
\* initialised, key_change registered as the callback of the device and
\* cleanup registered for SIGINT and atexit on the main thread
InitShutdown ==
    /\ layouts = RegApp
    /\ current_layout \in DOMAIN layouts.map
    /\ deck = "open"
    /\ images = [k \in Keys |-> Blank]
    /\ render_init = TRUE
    /\ muted = FALSE
    /\ clean_stickykeys = FALSE
    /\ wrappers = SwitchTargets(layouts)
    /\ last = [op |-> "init", key |-> -1, state |-> FALSE, name |-> None,
               before |-> current_layout, action_exc |-> NoExc,
               after_failure |-> -1]
    /\ calls = <<>>
    /\ invoked = <<>>
    /\ raised = NoExc
    /\ writes = 0
    /\ args = NoArgs
    /\ drawing = NotDrawn
    /\ queue = <<>>
    /\ running = <<>>
    /\ rendered = {}
    /\ pending = <<>>

\* on the callback thread key_change dispatches a press to a switch closure
\* with a registered target: the closure assigns current_layout and
\* render_layout tests the device once, before its first device call
redraw_begins ==
    \E key \in DOMAIN DispatchLayout :
        LET action == DispatchConfig(key).action IN
        /\ pending = <<>>
        /\ action.kind = "switch"
        /\ SwitchGuard(action.target)
        /\ current_layout' = action.target
        /\ pending' = IF deck = "open"
                      THEN PlannedRedraw(layouts.map[action.target])
                      ELSE <<>>
        /\ calls' = <<>>
        /\ raised' = NoExc
        /\ writes' = 1
        /\ invoked' = <<Stored(current_layout, key, action)>>
        /\ last' = Ran("key_change", key, TRUE, None, NoExc)
        /\ UNCHANGED <<layouts, deck, images, render_init, muted, clean_stickykeys,
                       wrappers, args, drawing, queue, running, rendered>>

\* on the callback thread key_change dispatches a press to the closure of
\* toggle_mic, which reads the mute state and calls render_keys for its key
refresh_begins ==
    \E key \in DOMAIN DispatchLayout :
        LET action == DispatchConfig(key).action IN
        /\ pending = <<>>
        /\ action.kind = "toggle_mic"
        /\ muted' = ~muted
        /\ pending' = PlannedRefresh(action.key, MicArgs(~muted))
        /\ calls' = <<>>
        /\ raised' = NoExc
        /\ writes' = 0
        /\ invoked' = <<Stored(current_layout, key, action)>>
        /\ last' = Ran("key_change", key, TRUE, None, NoExc)
        /\ UNCHANGED <<current_layout, layouts, deck, images, render_init,
                       clean_stickykeys, wrappers, args, drawing, queue, running,
                       rendered>>

\* the rendering under way makes its next device call; on a device that
\* cleanup has closed meanwhile the call raises, and the exception ends the
\* rendering and is swallowed by key_change
device_call ==
    /\ pending # <<>>
    /\ calls' = <<Head(pending).call>>
    /\ IF deck = "open"
       THEN /\ images' = Shows(Head(pending))
            /\ pending' = Tail(pending)
            /\ last' = Ran("device_call", -1, FALSE, None, NoExc)
       ELSE /\ images' = images
            /\ pending' = <<>>
            /\ last' = Ran("device_call", -1, FALSE, None, "TransportError")
    /\ raised' = NoExc
    /\ writes' = 0
    /\ invoked' = <<>>
    /\ UNCHANGED <<current_layout, layouts, deck, render_init, muted,
                   clean_stickykeys, wrappers, args, drawing, queue, running,
                   rendered>>

\* the callback thread renders while the main thread, waiting in
\* signal.pause(), may run cleanup at any moment
NextShutdown ==
    \/ redraw_begins
    \/ refresh_begins
    \/ device_call
    \/ cleanup

ShutdownSpec == InitShutdown /\ [][NextShutdown]_vars

\* the application as it ships: the registry of create_layouts on a StreamDeck
\* XL, started on "main" with every module initialised
InitShipped ==
    /\ layouts = RegShipped
    /\ current_layout = "main"
    /\ deck = "open"
    /\ images = [k \in 0 .. (ShippedKeyCount - 1) |-> Blank]
    /\ render_init = TRUE
    /\ muted = FALSE
    /\ clean_stickykeys = FALSE
    /\ wrappers = SwitchTargets(layouts)
    /\ last = [op |-> "init", key |-> -1, state |-> FALSE, name |-> None,
               before |-> current_layout, action_exc |-> NoExc,
               after_failure |-> -1]
    /\ calls = <<>>
    /\ invoked = <<>>
    /\ raised = NoExc
    /\ writes = 0
    /\ args = NoArgs
    /\ drawing = NotDrawn
    /\ queue = <<>>
    /\ running = <<>>
    /\ rendered = {}
    /\ pending = <<>>

\* what moves the shipped application from layout to layout: presses (the
\* failures of opaque Actions and the releases, which change no layout, are
\* left to Spec), and cleanup
NextShipped ==
    \/ key_press
    \/ cleanup

ShippedSpec == InitShipped /\ [][NextShipped]_vars

(* ======================================================================= *)
(*                               Properties                                *)
(* ======================================================================= *)

\* the layout names of the switch closures the step that just ran invoked:
\* directly, or as the Action the dispatcher called
SwitchInvoked ==
    IF last.op = "wrapper"
    THEN {last.name}
    ELSE IF last.op = "key_change"
         THEN {invoked[i].action.target :
                 i \in {j \in DOMAIN invoked : invoked[j].action.kind = "switch"}}
         ELSE {}

\* the name is a key of a non-empty registry
Registered(name) == LayoutsTruthy(layouts) /\ InLayouts(layouts, name)

\* what the device shows and what the controller holds
DeviceAndLayout == <<current_layout, layouts, deck, images>>

\* C1: invoking the closure of switch_layout(name) for a name that is no key
\* of the registry, or while the registry is unset or empty, leaves
\* current_layout (and the device) as it was and issues no device call:
\* no reset, no set_brightness, no set_key_image.
C1_UnknownTargetIsNoOp ==
    [][ \A name \in SwitchInvoked' :
            ~Registered(name) =>
                /\ UNCHANGED DeviceAndLayout
                /\ calls' = <<>>
                /\ writes' = 0 ]_vars

\* a press on the key bound to switch("ghost") was dispatched in a built
\* registry
C1_Witness ==
    /\ last.op = "key_change"
    /\ "ghost" \in SwitchInvoked
    /\ LayoutsTruthy(layouts)

\* the number of calls of the last handler with this operation
CountOp(op) == Cardinality({i \in DOMAIN calls : calls[i].op = op})

\* the number of set_key_image calls of the last handler for this key
CountImage(key) == Cardinality({i \in DOMAIN calls : calls[i] = Call("set_key_image", key)})

\* the keys of a registered layout whose rendering raises
Unrenderable(name) ==
    LET layout == layouts.map[name] IN
    {k \in DOMAIN layout :
        \/ ~render_init
        \/ KeyImage(layout[k].label, layout[k].icon, ColorOf(layout[k])).raised # NoExc}

\* the keys of a registered layout in front of the first one whose rendering
\* raises: all of them when none raises
Drawable(name) ==
    {k \in DOMAIN layouts.map[name] : \A j \in Unrenderable(name) : k < j}

\* C2 as stated: invoking the switch Action for any registered name sets
\* current_layout to it and issues exactly one reset(), one set_brightness()
\* and one set_key_image per key index of that layout, none for other keys.
C2_OneRedrawPerSwitch ==
    \A name \in SwitchInvoked :
        Registered(name) =>
            /\ current_layout = name
            /\ CountOp("reset") = 1
            /\ CountOp("set_brightness") = 1
            /\ \A k \in Keys :
                 CountImage(k) = IF k \in DOMAIN layouts.map[name] THEN 1 ELSE 0

\* C2 amended: invoking the switch Action for any registered name sets
\* current_layout to it; on an open device it issues exactly one reset(), one
\* set_brightness() and one set_key_image for each key index of the layout in
\* front of the first key whose rendering raises (every key index of the
\* layout when none raises) and for no other key; on an absent or closed
\* device it issues no call.
C2_OneRedrawPerSwitchOnOpenDevice ==
    \A name \in SwitchInvoked :
        Registered(name) =>
            /\ current_layout = name
            /\ IF deck = "open"
               THEN /\ CountOp("reset") = 1
                    /\ CountOp("set_brightness") = 1
                    /\ \A k \in Keys :
                         CountImage(k) = IF k \in Drawable(name) THEN 1 ELSE 0
                    /\ Len(calls) = 2 + Cardinality(Drawable(name))
               ELSE calls = <<>>

\* the dispatcher switched to a registered, non-empty layout on an open
\* device and every key of the layout was drawn
C2_Witness ==
    /\ last.op = "key_change"
    /\ deck = "open"
    /\ \E name \in SwitchInvoked :
          /\ Registered(name)
          /\ DOMAIN layouts.map[name] # {}
          /\ Drawable(name) = DOMAIN layouts.map[name]
          /\ CountOp("set_key_image") = Cardinality(DOMAIN layouts.map[name])

\* the failures an Action or its lookup can raise: the classes derived from
\* Exception (SystemExit and the other interpreter-exit requests are no
\* failures and are not derived from Exception)
Failures ==
    {"RuntimeError", "OSError", "KeyError", "TypeError", "AttributeError", "TransportError"}

\* C3: whatever failure the Action of a pressed key raises, key_change
\* returns normally: no exception leaves it towards the device library.
C3_ActionFailureSuppressed ==
    (last.op = "key_change" /\ last.state /\ last.action_exc \in Failures)
        => raised = NoExc

\* a press invoked an Action that raised OSError
C3_Witness ==
    /\ last.op = "key_change"
    /\ last.state
    /\ invoked # <<>>
    /\ last.action_exc = "OSError"

\* the step is a press on a key whose KeyConfig in the current layout stores a
\* callable Action
PressOnAction ==
    /\ last'.op = "key_change"
    /\ last'.state
    /\ Registered(current_layout)
    /\ last'.key \in DOMAIN layouts.map[current_layout]
    /\ layouts.map[current_layout][last'.key].action.kind \notin {"missing", "noncallable"}

\* the step invoked exactly the Action stored under the pressed key in the
\* layout that was current when it began
InvokesStored ==
    invoked' = <<Stored(current_layout, last'.key,
                        layouts.map[current_layout][last'.key].action)>>

\* the step is a dispatch whose Action raised
FailedDispatch ==
    /\ last'.op = "key_change"
    /\ invoked' # <<>>
    /\ last'.action_exc # NoExc

\* a press on another key after a dispatch whose Action raised still invokes
\* the Action of that key
ResponsiveAfterFailure ==
    (FailedKey # -1 /\ PressOnAction /\ last'.key # FailedKey) => InvokesStored

\* C4 as stated: after a press whose Action raised, a later press on another
\* configured key still invokes that key's Action, and the failed dispatch
\* leaves current_layout and the registry as they were.
C4_FailureLeavesStateAlone ==
    [][ /\ ResponsiveAfterFailure
        /\ FailedDispatch => (current_layout' = current_layout /\ layouts' = layouts) ]_vars

\* C4 amended: after a press whose Action raised, a later press on another
\* configured key still invokes that key's Action; the failed dispatch leaves
\* the registry as it was, and leaves current_layout as it was unless the
\* failing Action is a switch to a registered layout, which has assigned
\* current_layout before its redraw raised.
C4_FailureLeavesDispatcherResponsive ==
    [][ /\ ResponsiveAfterFailure
        /\ FailedDispatch =>
              /\ layouts' = layouts
              /\ \/ current_layout' = current_layout
                 \/ \E name \in SwitchInvoked' :
                       Registered(name) /\ current_layout' = name ]_vars

\* a press on a configured key invoked its Action right after a press on
\* another key whose Action raised
C4_Witness ==
    /\ last.op = "key_change"
    /\ last.state
    /\ last.after_failure \notin {-1, last.key}
    /\ invoked # <<>>

\* what a handler other than cleanup may change besides current_layout
Frame == <<layouts, deck, images, muted>>

\* C5: a release event never acts: whatever the key, the current layout and
\* the registry, key_change(key, pressed = false) invokes no Action, issues no
\* device call and leaves current_layout unchanged.
C5_ReleaseNeverActs ==
    [][ (last'.op = "key_change" /\ ~last'.state) =>
            /\ invoked' = <<>>
            /\ calls' = <<>>
            /\ writes' = 0
            /\ current_layout' = current_layout
            /\ UNCHANGED Frame ]_vars

\* a release was dispatched for a key that is configured in the current layout
C5_Witness ==
    /\ last.op = "key_change"
    /\ ~last.state
    /\ Registered(current_layout)
    /\ last.key \in DOMAIN layouts.map[current_layout]

\* there is no active layout, or the key has no KeyConfig in the current one
NothingToDispatch(key) ==
    \/ ~LayoutsTruthy(layouts)
    \/ ~Truthy(current_layout)
    \/ /\ InLayouts(layouts, current_layout)
       /\ key \notin DOMAIN layouts.map[current_layout]

\* C6: a press is discarded when there is no active layout (the registry or
\* current_layout is not initialised) or the key has no KeyConfig in the
\* current layout: no Action is invoked, nothing is raised and the controller
\* state is unchanged.
C6_PressDiscarded ==
    [][ (last'.op = "key_change" /\ last'.state /\ NothingToDispatch(last'.key)) =>
            /\ invoked' = <<>>
            /\ raised' = NoExc
            /\ calls' = <<>>
            /\ writes' = 0
            /\ current_layout' = current_layout
            /\ UNCHANGED Frame ]_vars

\* a press was dispatched for a key with no KeyConfig in the current layout of
\* a built registry
C6_Witness ==
    /\ last.op = "key_change"
    /\ last.state
    /\ current_layout = last.before
    /\ Registered(current_layout)
    /\ DOMAIN layouts.map[current_layout] # {}
    /\ last.key \notin DOMAIN layouts.map[current_layout]

\* a press is dispatched for a key that has a KeyConfig in the current layout
PressOnConfigured ==
    /\ last'.op = "key_change"
    /\ last'.state
    /\ Registered(current_layout)
    /\ last'.key \in DOMAIN layouts.map[current_layout]

\* C7 as stated: a press on a key that has a KeyConfig in the current layout
\* invokes exactly one Action, once, the one stored under that key. A
\* KeyConfig may carry no action, and a press on it invokes nothing.
C7_EveryConfiguredKeyInvokes ==
    [][ PressOnConfigured => InvokesStored ]_vars

\* C7: a press on a key whose KeyConfig in the current layout stores an Action
\* invokes exactly one Action, once: the one stored under that key in the
\* layout that is current when the press is dispatched, not that of another
\* key or of another layout.
C7_InvokesTheStoredAction ==
    [][ PressOnAction => InvokesStored ]_vars

\* a press in a layout other than the starting one invoked the one Action
\* stored under its key there
C7_Witness ==
    /\ last.op = "key_change"
    /\ last.state
    /\ Len(invoked) = 1
    /\ invoked[1].layout = last.before
    /\ invoked[1].key = last.key
    /\ last.before \notin {None, "main"}

\* the step invoked a switch closure whose target is registered
RegisteredSwitch == \E name \in SwitchInvoked : Registered(name)

\* C8: a press on a key whose Action is switch(T), T registered, makes T the
\* current layout without raising; from then on every press is filtered and
\* dispatched against the mapping of the current layout, which stays T until
\* a switch closure with a registered target is invoked again; for an empty T
\* no key is rendered and every press is discarded.
C8_SwitchThenDispatchAgainstTarget ==
    [][ /\ (last'.op = "key_change" /\ RegisteredSwitch') =>
              /\ current_layout' \in SwitchInvoked'
              /\ raised' = NoExc
              /\ (layouts.map[current_layout'] = EmptyLayout =>
                    \A i \in DOMAIN calls' : calls'[i].op # "set_key_image")
        /\ ~RegisteredSwitch' => current_layout' = current_layout
        /\ PressOnAction => InvokesStored
        /\ (last'.op = "key_change" /\ last'.state /\ NothingToDispatch(last'.key)) =>
              /\ invoked' = <<>>
              /\ calls' = <<>>
              /\ current_layout' = current_layout ]_vars

\* the press on the back key of "main" made the empty layout "other" current:
\* the device was reset and no key was drawn
C8_Witness ==
    /\ last.op = "key_change"
    /\ last.before = "main"
    /\ SwitchInvoked = {"other"}
    /\ current_layout = "other"
    /\ layouts.map["other"] = EmptyLayout
    /\ raised = NoExc
    /\ calls = <<Call("reset", 0), Call("set_brightness", Brightness)>>

\* C9: calling switch_layout(name) changes neither current_layout nor the
\* device and only yields a callable; the transition happens only when a
\* closure is invoked, and invoking it leaves it available for the next call.
C9_ConstructionIsDeferred ==
    [][ /\ last'.op = "switch_layout" =>
              /\ current_layout' = current_layout
              /\ UNCHANGED Frame
              /\ calls' = <<>>
              /\ writes' = 0
              /\ last'.name \in wrappers'
        /\ last'.op = "wrapper" => (last'.name \in wrappers /\ wrappers' = wrappers)
        /\ current_layout' # current_layout => SwitchInvoked' # {} ]_vars

\* a closure for the registered layout "main" was built while another layout
\* was current on an open device
C9_Witness ==
    /\ last.op = "switch_layout"
    /\ last.name = "main"
    /\ Registered("main")
    /\ Truthy(current_layout)
    /\ current_layout # "main"
    /\ deck = "open"

\* C10: current_layout is assigned only by the invocation of a switch closure
\* whose target is registered, exactly once per invocation, to that target;
\* every other step (release, press on an unconfigured key, another Action, a
\* failing Action, a switch to an unknown name, the single-key refresh of the
\* microphone toggle, cleanup, building a closure) leaves it alone.
C10_OnlyRegisteredSwitchWrites ==
    [][ /\ writes' = (IF RegisteredSwitch' THEN 1 ELSE 0)
        /\ RegisteredSwitch' => current_layout' \in SwitchInvoked'
        /\ ~RegisteredSwitch' => current_layout' = current_layout ]_vars

\* a dispatched switch assigned current_layout once and changed its value
C10_Witness ==
    /\ last.op = "key_change"
    /\ RegisteredSwitch
    /\ writes = 1
    /\ current_layout # last.before

\* the step dispatched a press to the microphone toggle
ToggleInvoked ==
    /\ last.op = "key_change"
    /\ Len(invoked) = 1
    /\ invoked[1].action.kind = "toggle_mic"

\* the step left the image of every key other than k as it was
OnlyKeyRedrawn(k) == \A j \in DOMAIN images \ {k} : images'[j] = images[j]

\* C11 as stated: the single-key refresh of toggle_mic bound to key K pushes
\* exactly one image, for key K only, issues no reset and no set_brightness,
\* changes no other key's image and leaves current_layout unchanged. The
\* refresh pushes nothing when the device is not open, when the render module
\* is not initialised or when the amixer command cannot be started.
C11_RefreshPushesOneImage ==
    [][ ToggleInvoked' =>
            /\ calls' = <<Call("set_key_image", invoked'[1].action.key)>>
            /\ OnlyKeyRedrawn(invoked'[1].action.key)
            /\ current_layout' = current_layout ]_vars

\* C11: the single-key refresh of toggle_mic bound to key K pushes at most one
\* image and only for key K - exactly one when the Action completes, none when
\* it raises -, issues no reset and no set_brightness, changes no other key's
\* image and leaves current_layout unchanged; on an open device with the
\* render module initialised it raises only if the amixer command fails.
C11_RefreshTouchesOnlyItsKey ==
    [][ ToggleInvoked' =>
            LET K == invoked'[1].action.key IN
            /\ IF last'.action_exc = NoExc
               THEN calls' = <<Call("set_key_image", K)>>
               ELSE calls' = <<>> /\ images' = images
            /\ (deck = "open" /\ render_init) => last'.action_exc \in {NoExc} \cup FailureKinds
            /\ OnlyKeyRedrawn(K)
            /\ current_layout' = current_layout
            /\ writes' = 0 ]_vars

\* the toggle on key 3 of "main" redrew that key with the OFF label while the
\* other keys kept the images of the last full redraw
C11_Witness ==
    /\ ToggleInvoked
    /\ calls = <<Call("set_key_image", 3)>>
    /\ images[3] = Image("icon+label", "black", "mic-off.png", "OFF")
    /\ images[0] # Blank
    /\ current_layout = "main"

\* the device calls of one full redraw of layout "name", in order: reset,
\* set_brightness at the operating level, then set_key_image calls for keys of
\* the layout only
OrderedRedraw(cs, name) ==
    \/ cs = <<>>
    \/ /\ Len(cs) >= 2
       /\ cs[1] = Call("reset", 0)
       /\ cs[2] = Call("set_brightness", Brightness)
       /\ \A i \in 3 .. Len(cs) :
             /\ cs[i].op = "set_key_image"
             /\ cs[i].arg \in DOMAIN layouts.map[name]

\* C13: within one full redraw current_layout is assigned first (it holds the
\* target even when the redraw that follows raises), then reset() is called,
\* then set_brightness() with the operating level, and only then the
\* set_key_image calls of the target layout; no reset follows a set_key_image.
C13_RedrawIsOrdered ==
    [][ RegisteredSwitch' =>
            /\ current_layout' \in SwitchInvoked'
            /\ OrderedRedraw(calls', current_layout') ]_vars

\* a full redraw reset the device, set the brightness and then pushed the
\* images of at least two keys
C13_Witness ==
    /\ RegisteredSwitch
    /\ Len(calls) >= 4
    /\ calls[1].op = "reset"
    /\ calls[Len(calls)].op = "set_key_image"

\* C14: when the starting layout name is a key of the registry, current_layout
\* is the name of a registered layout in every state that follows, whatever
\* presses, releases, valid switches, unknown-target switches, failing
\* Actions and cleanups occur.
C14_CurrentLayoutStaysRegistered ==
    Registered(current_layout) => [] Registered(current_layout)

\* after a valid start, a dispatched switch to an unknown name and a failed
\* Action both left a registered layout current
C14_Witness ==
    /\ Registered(current_layout)
    /\ last.op = "key_change"
    /\ SwitchInvoked = {"ghost"}
    /\ last.after_failure # -1

\* every switch Action stored in the registry names a layout of the registry
SwitchTargetsDefined == SwitchTargets(layouts) \subseteq DOMAIN layouts.map

\* C15: in the registry create_layouts builds every layout-switch Action names
\* a layout defined in the same registry, so no press in any layout the
\* application can show invokes a switch whose target is unknown.
C15_ShippedTargetsAreDefined ==
    [][ /\ SwitchTargetsDefined
        /\ last'.op = "key_change" => \A name \in SwitchInvoked' : Registered(name) ]_vars

\* the press on key 30 of the shipped "main" made "apps" current
C15_Witness ==
    /\ layouts = RegShipped
    /\ last.op = "key_change"
    /\ last.key = 30
    /\ last.before = "main"
    /\ SwitchInvoked = {"apps"}
    /\ current_layout = "apps"

\* the mode the presence of label and icon selects
ModeFor(label, icon) ==
    CASE Truthy(label) /\ Truthy(icon)  -> "icon+label"
      [] Truthy(label) /\ ~Truthy(icon) -> "label"
      [] ~Truthy(label) /\ Truthy(icon) -> "icon"
      [] OTHER                          -> "color"

\* C16: for every combination of label and icon (present, None or empty)
\* render_keys applies exactly one of the four modes - both present: icon and
\* label, only label: label, only icon: icon, neither: solid colour - and
\* produces exactly one image for the key.
C16_OneModeOneImage ==
    drawing.done =>
        /\ calls = <<Call("set_key_image", args.key)>>
        /\ images[args.key].mode = ModeFor(LabelToken(args.label), args.icon)

\* the first n characters of a text
FirstChars(s, n) == SubSeq(s, 1, n)

\* C17: in icon+label mode with an icon that loads, for every label and every
\* chars_per_line, a label longer than chars_per_line is drawn as its first
\* chars_per_line - 3 characters followed by "...", any other label is drawn
\* unmodified, and the text is drawn as one line.
C17_LongLabelIsTruncated ==
    (/\ drawing.done
     /\ Truthy(LabelToken(args.label))
     /\ Truthy(args.icon)
     /\ IconStatus(args.icon) = "ok") =>
        /\ Len(drawing.text) = 1
        /\ drawing.text[1].text =
              IF Len(args.label.chars) > CharsPerLine(args.fit)
              THEN FirstChars(args.label.chars, CharsPerLine(args.fit) - 3) \o Ellipsis
              ELSE args.label.chars

\* render_keys has drawn a key that has a label and no icon
LabelOnlyDrawn ==
    /\ drawing.done
    /\ Truthy(LabelToken(args.label))
    /\ ~Truthy(args.icon)

\* the lines are those of wrap(label, chars_per_line), one line height apart
WrappedLinesDrawn ==
    /\ Len(drawing.text) = Len(Wrap(args.label.chars, CharsPerLine(args.fit)))
    /\ \A i \in DOMAIN drawing.text :
          /\ drawing.text[i].text = Wrap(args.label.chars, CharsPerLine(args.fit))[i]
          /\ drawing.text[i].y = drawing.text[1].y + (i - 1) * args.line_height

\* canvas_height - line_count * line_height
FreeHeight == args.height - Len(drawing.text) * args.line_height

\* C18 as stated: in label-only mode the lines drawn are those of
\* wrap(label, chars_per_line), the top of the first line is at exactly
\* (canvas_height - line_count*line_height)/2 and line i is one line height
\* below line i-1. The quotient is no whole number when the free height is odd.
C18_BlockCentredExactly ==
    LabelOnlyDrawn =>
        /\ WrappedLinesDrawn
        /\ drawing.text # <<>> => 2 * drawing.text[1].y = FreeHeight

\* C18: in label-only mode the lines drawn are those of
\* wrap(label, chars_per_line), the top of the first line is at
\* (canvas_height - line_count*line_height)/2 rounded down to a whole pixel
\* (also when the block is higher than the canvas) and line i is drawn with
\* its top edge i line heights below the first.
C18_BlockCentredRoundedDown ==
    LabelOnlyDrawn =>
        /\ WrappedLinesDrawn
        /\ drawing.text # <<>> =>
              /\ 2 * drawing.text[1].y <= FreeHeight
              /\ FreeHeight < 2 * drawing.text[1].y + 2

\* a label wrapped into three lines was drawn on a canvas whose free height
\* is odd
C18_Witness ==
    /\ LabelOnlyDrawn
    /\ Len(drawing.text) = 3
    /\ FreeHeight % 2 = 1
    /\ drawing.text[3].y = drawing.text[1].y + 2 * args.line_height

\* render_keys was called with an icon whose file cannot be loaded
UnloadableIconDrawn ==
    /\ drawing.done
    /\ Truthy(args.icon)
    /\ IconStatus(args.icon) # "ok"

\* C19: an icon that is absent or unreadable never makes rendering raise:
\* render_keys completes and pushes an error-colour image for the key.
C19_UnloadableIconNeverRaises ==
    UnloadableIconDrawn =>
        /\ raised = NoExc
        /\ calls = <<Call("set_key_image", args.key)>>
        /\ images[args.key].fill = "red"

\* what a key image shows, whatever branch composed it
Pixels(image) == [fill |-> image.fill, icon |-> image.icon, text |-> image.text]

\* C20: when the icon of an icon+label or icon-only key cannot be loaded the
\* key is rendered as in mode 4, a canvas filled with one colour and nothing
\* drawn on it, in the error colour and not in the configured colour.
C20_FallbackIsSolidErrorColour ==
    UnloadableIconDrawn =>
        /\ Pixels(images[args.key]) = Pixels(Image("color", "red", None, None))
        /\ drawing.text = <<>>

RedrawCompleted(name) ==
    /\ name \in SwitchInvoked
    /\ Registered(name)
    /\ deck = "open"
    /\ last.action_exc = NoExc

\* the keys of a registered layout whose entry sets neither label nor icon
NeitherKeys(name) ==
    {k \in DOMAIN layouts.map[name] :
        ~Truthy(layouts.map[name][k].label) /\ ~Truthy(layouts.map[name][k].icon)}

\* C21: a KeyConfig with neither label nor icon is filled with its
\* background colour if one is set and otherwise with the fixed error colour:
\* after a full redraw an entry that sets no label, no icon and no colour is
\* shown in the error colour.
C21_UnconfiguredKeyShownInErrorColour ==
    \A name \in SwitchInvoked :
        RedrawCompleted(name) =>
            \A k \in NeitherKeys(name) :
                images[k] = Image("color",
                                  IF Truthy(layouts.map[name][k].color)
                                  THEN layouts.map[name][k].color
                                  ELSE "red",
                                  None, None)

C23_MissingDeviceIsSignalled ==
    \A name \in SwitchInvoked :
        (Registered(name) /\ deck # "open") =>
            ~(last.action_exc = NoExc /\ raised = NoExc /\ current_layout = name)

\* the step is a call of cleanup
CleanupRan == last'.op = "cleanup"

\* C24: cleanup runs exactly once however often it is triggered: the flag,
\* once set, stays set; only the call that finds it unset sends the
\* key-release command or resets and closes the device, each at most once;
\* every later call returns without any effect.
C24_CleanupRunsOnce ==
    [][ /\ clean_stickykeys => clean_stickykeys'
        /\ CleanupRan =>
             /\ clean_stickykeys'
             /\ CountOp("release_all_keys")' <= 1
             /\ CountOp("reset")' <= 1
             /\ CountOp("close")' <= 1
             /\ clean_stickykeys =>
                  /\ calls' = <<>>
                  /\ raised' = NoExc
                  /\ UNCHANGED <<current_layout, layouts, deck, images, muted>> ]_vars

\* cleanup was called again after a call that released the keys and closed
\* the device
C24_Witness ==
    /\ last.op = "cleanup"
    /\ clean_stickykeys
    /\ deck = "closed"
    /\ calls = <<>>

\* C25: cleanup errors do not prevent the other cleanup steps: the first call
\* of cleanup with an open device resets and closes it whether or not the
\* key-release step failed, and cleanup never raises.
C25_FailedReleaseStillClosesDevice ==
    [][ CleanupRan =>
          /\ raised' = NoExc
          /\ (~clean_stickykeys /\ deck = "open") =>
                /\ CountOp("reset")' = 1
                /\ CountOp("close")' = 1
                /\ deck' = "closed" ]_vars

\* the keys that have had an image pushed since the latest reset
Shown == {k \in DOMAIN images : images[k] # Blank}

\* C26: no stale or partial display: once the handler that invoked the switch
\* closure of a registered layout T has returned, current_layout = T, every
\* key index of T has had an image pushed since the latest reset and no key
\* index outside T has, also when rendering one of T's keys fails or the
\* device is not open.
C26_DeviceShowsExactlyTarget ==
    \A name \in SwitchInvoked :
        Registered(name) =>
            /\ current_layout = name
            /\ Shown = DOMAIN layouts.map[name]

\* the state key_change was called in, by the handler record: the registry
\* or current_layout unset, current_layout no key of the registry, or a
\* KeyConfig for the key with no "action" entry or a non-callable one
NothingCallable ==
    \/ ~LayoutsTruthy(layouts)
    \/ ~Truthy(last.before)
    \/ ~InLayouts(layouts, last.before)
    \/ /\ last.key \in DOMAIN layouts.map[last.before]
       /\ layouts.map[last.before][last.key].action.kind \in {"missing", "noncallable"}

\* C27: key_change never raises: called in an uninitialised state, with a
\* current_layout name that is no key of the registry, or for a KeyConfig
\* with no "action" entry or a non-callable one, it returns normally without
\* invoking anything.
C27_KeyChangeNeverRaises ==
    (last.op = "key_change" /\ NothingCallable) =>
        /\ raised = NoExc
        /\ invoked = <<>>

\* C29: in icon+label mode the text drawn never has more than chars_per_line
\* characters, for every label and every chars_per_line >= 1 the renderer
\* computes.
C29_DrawnTextFitsTheLine ==
    (/\ drawing.done
     /\ raised = NoExc
     /\ Truthy(LabelToken(args.label))
     /\ Truthy(args.icon)) =>
        \A i \in DOMAIN drawing.text :
            Len(drawing.text[i].text) <= CharsPerLine(args.fit)

\* what the first full redraw of a registered layout shows: the layout drawn
\* on an open device that shows nothing
FirstRender(name) ==
    render_layout("open", layouts.map[name], [k \in DOMAIN images |-> Blank]).images

\* C30: a full redraw depends only on the registry and the target name, not
\* on history: after every switch to a registered layout L, also one that
\* follows a single-key refresh of a key of L and a switch to another layout,
\* the image of every key equals what the first render of L produced, so the
\* refreshed key shows its static KeyConfig again.
C30_RedrawIgnoresHistory ==
    \A name \in SwitchInvoked :
        (Registered(name) /\ deck = "open") =>
            \A k \in DOMAIN images : images[k] = FirstRender(name)[k]

\* the microphone key of "main" was refreshed to OFF, the back key of "apps"
\* was pressed after that, and the redraw of "main", not its first, shows the
\* static icon of the microphone key again
C30_Witness ==
    /\ last.op = "key_change"
    /\ last.before = "apps"
    /\ SwitchInvoked = {"main"}
    /\ muted
    /\ \E p \in rendered : p.args = MicArgs(TRUE)
    /\ \E p \in rendered : p.args = LayoutArgs(layouts.map["main"][3]) /\ p.n = 2
    /\ images[3] = Image("icon", "black", "mic-fill.png", None)

\* C28: shutdown does not race with a redraw: no set_key_image, reset or
\* set_brightness call of a full redraw or single-key refresh under way on
\* the callback thread is made on the device after cleanup() closed it.
C28_NoDeviceCallAfterClose ==
    [][ (last'.op = "device_call" /\ calls' # <<>>) => deck = "open" ]_vars

====
